---- MODULE Spec2Model ----
(***************************************************************************)
(* Model of generate_adversarial_example.py: the label index resolver, the *)
(* image conversions, the perturbation optimizer loop and the driver.      *)
(*                                                                         *)
(* Tensors are sequences over the three channels of one pixel (the 224x224 *)
(* grid is a repetition of that pixel and plays no part in any property).  *)
(* Float values are fixed-point integers in thousandths of a pixel level:  *)
(* 255.0 is 255000, the learning rate 0.01 is 10, epsilon 2/255 is 7.      *)
(* A label is a sequence of characters.                                    *)
(***************************************************************************)
EXTENDS Integers, Sequences, FiniteSets, TLC

VARIABLES
    pc,              \* position of the run: the statement about to execute
    target_class,    \* args.target_class
    file_in,         \* what cv2.imread(args.file_in) yields (<<>>: not readable)
    mapping_dict,    \* contents of imagenet_index.json
    target_index,    \* module-level target_index
    original_label,  \* predictions[0][1] of the first classifier
    original_index,  \* module-level original_index
    input_image,     \* result of preprocess_image
    model,           \* the first classifier's weights ("unloaded" before line 95)
    optimizer,       \* module-level Adam object: its iteration counter
    baseImage,       \* module-level base tensor
    base_image,      \* argument base_image of generate_target_adversaries
    delta,           \* the perturbation tf.Variable
    steps,           \* argument steps of generate_target_adversaries
    step,            \* loop variable of generate_target_adversaries
    adversary,       \* tensor last fed to the classifier inside the loop
    preprocessed_input,   \* module-level preprocessed_input (lines 92, 129)
    preprocessed_input2,  \* module-level preprocessed_input2 (line 145)
    progress,        \* number of "step: .., loss: .." lines printed
    outputFile,      \* contents of output.png (<<>>: not written)
    model2,          \* the transfer classifier's weights ("unloaded" before line 143)
    stages,          \* history: the driver stages completed, in order
    label2,          \* second label of a pair of resolver calls
    result1,         \* result of the resolver on target_class
    result2          \* result of the resolver on label2

vars == <<pc, target_class, file_in, mapping_dict, target_index, original_label,
          original_index, input_image, model, optimizer, baseImage, base_image,
          delta, steps, step, adversary, progress, outputFile, model2, stages,
          label2, result1, result2, preprocessed_input, preprocessed_input2>>

----------------------------------------------------------------------------
(* Bounds of the model *)

\* longest label given to the resolver
MaxLabelLen == 2

\* step budget of the optimizer (the source runs 100 steps)
MaxSteps == 2

----------------------------------------------------------------------------
(* Values *)

\* mapping_dict.get(label, None): the not-found value (indices are >= 0)
None == -1

\* one pixel level in fixed-point units
Fixed(p) == p * 1000

Channels == 1..3

Zeros == [i \in Channels |-> 0]

TensorAdd(a, b) == [i \in Channels |-> a[i] + b[i]]

Chars == {"a", "A", "_", " "}

Labels == UNION {[1..n -> Chars] : n \in 0..MaxLabelLen}

----------------------------------------------------------------------------
(* Label Index Resolver *)

\* str.lower() on one character
Lower(c) == IF c = "A" THEN "a" ELSE c

\* variant: lowercase only, underscores kept
LowerKeepUnderscore(label) == [i \in 1..Len(label) |-> Lower(label[i])]

\* label.lower().replace("_", " ")
NormalizeLabel(label) ==
    [i \in 1..Len(label) |->
        IF Lower(label[i]) = "_" THEN " " ELSE Lower(label[i])]

get_target_class_index(label, dict) ==
    LET key == NormalizeLabel(label)
    IN  IF key \in DOMAIN dict THEN dict[key] ELSE None

\* the label maps the runs are tried with: normalized names to indices
Maps ==
    { (<<"a">> :> 0) @@ (<<"a", " ">> :> 1),
      (<<"a", " ">> :> 0) @@ (<<" ", "a">> :> 1) @@ (<<>> :> 2) }

----------------------------------------------------------------------------
(* Image conversions *)

\* cv2.cvtColor(image, cv2.COLOR_BGR2RGB) and COLOR_RGB2BGR: reverse channels
SwapChannels(image) == <<image[3], image[2], image[1]>>

\* preprocess_image: swap channels; resize and batch dimension keep the pixel
preprocess_image(image) == SwapChannels(image)

\* resnet50.preprocess_input: RGB to BGR, subtract the ImageNet channel means
preprocess_input(x) == <<x[3] - 103939, x[2] - 116779, x[1] - 123680>>

\* mobilenet_v2.preprocess_input: scale to [-1, 1]
preprocess_input2(x) == [i \in Channels |-> (x[i] * 2) \div 255 - Fixed(1)]

\* np.clip(x, lo, hi)
np_clip(x, lo, hi) ==
    [i \in Channels |-> IF x[i] < lo THEN lo ELSE IF x[i] > hi THEN hi ELSE x[i]]

\* variant: no conversion, the float values are kept
KeepFloat(x) == x

\* ndarray.astype("uint8"): drop the fraction, keep the low eight bits
astype_uint8(x) ==
    [i \in Channels |->
        LET whole == IF x[i] >= 0 THEN x[i] \div Fixed(1) ELSE -((-x[i]) \div Fixed(1))
        IN  Fixed(whole % 256)]

\* lines 123-125: the image handed to cv2.imwrite
Reconstruct(base, d) ==
    SwapChannels(astype_uint8(np_clip(TensorAdd(base, d), 0, Fixed(255))))

\* images cv2.imread can return (BGR, whole pixel levels)
Images == { <<Fixed(0), Fixed(128), Fixed(255)>>, <<Fixed(255), Fixed(7), Fixed(0)>> }

\* cv2.imread on a missing or undecodable file returns None
Unreadable == <<>>

----------------------------------------------------------------------------
(* Perturbation Optimizer *)

\* epsilon = 2 / 255.0
epsilon == Fixed(2) \div 255

\* learning_rate = 0.01
learning_rate == Fixed(1) \div 100

\* num_of_steps (100 in the source, scaled to the step bound)
num_of_steps == MaxSteps

\* Adam(learning_rate): a fresh optimizer has applied no update
FreshAdam == [iterations |-> 0]

\* What one Adam update subtracts from an element: the first update is the
\* learning rate times the sign of the gradient; the gradient comes from
\* the classifier, which is an input, so its sign is any of the three.
AdamMoves == {-learning_rate, 0, learning_rate}

\* totalLoss as observed: below, at, above zero
Losses == {-1, 0, 1}

\* clip_eps(tensor, eps)
clip_eps(tensor, eps) == np_clip(tensor, -eps, eps)

\* optimizer.apply_gradients([(gradients, delta)]) on the variable's value
apply_gradients(d, moves) == [i \in Channels |-> d[i] - moves[i]]

\* delta.assign_add(value)
assign_add(d, value) == TensorAdd(d, value)

\* line 69: delta after the clipping statement
ClipAndUpdate(d) == assign_add(d, clip_eps(d, epsilon))

\* variant: a call in training mode moves the batch-normalization statistics
CallTraining(weights) == "ResNet50, batch statistics updated"

\* model(adversary, training=False): the weights after an inference call
CallInference(weights) == weights

\* variant: leave the loop once the loss is not positive
StopWhenLossLow(s, n, loss) == IF loss <= 0 THEN n ELSE s + 1

\* for step in range(0, steps): the loop index after an iteration
NextStep(s, n, loss) == s + 1

\* the statements of the driver in program order
Order == <<"resolve_target", "preprocess", "classify", "resolve_original", "build",
           "optimize", "write", "reclassify", "show", "transfer", "done">>

PositionOf(p) == CHOOSE i \in 1..Len(Order) : Order[i] = p

\* variant: the file is written after the re-classification
WriteAfterReclassify(p) ==
    CASE p = "optimize"   -> "reclassify"
      [] p = "reclassify" -> "write"
      [] p = "write"      -> "show"
      [] OTHER            -> Order[PositionOf(p) + 1]

\* straight-line code: the statement that follows p
Successor(p) == Order[PositionOf(p) + 1]

\* variant: a conversion that accepts None
IntOrZero(index) == FALSE

\* int(index) raises TypeError on None
IntRaises(index) == index = None

InLoop == pc \in {"optimize", "update"}

\* lines 47-62: the tape block of one iteration
GenForward ==
    /\ pc = "optimize"
    /\ step < steps
    /\ ~IntRaises(original_index)
    /\ ~IntRaises(target_index)
    /\ adversary' = preprocess_input(TensorAdd(baseImage, delta))
    /\ model' = CallInference(model)
    /\ progress' = IF step % 10 = 0 THEN progress + 1 ELSE progress
    /\ pc' = "update"
    /\ UNCHANGED <<target_class, file_in, mapping_dict, target_index, original_label,
                   original_index, input_image, optimizer, baseImage,
                   base_image, delta, steps, step, outputFile, model2, stages,
                   label2, result1, result2,
                   preprocessed_input, preprocessed_input2>>

\* lines 47-58 when int() of a class index raises: the exception is uncaught
GenForwardRaise ==
    /\ pc = "optimize"
    /\ step < steps
    /\ IntRaises(original_index) \/ IntRaises(target_index)
    /\ adversary' = preprocess_input(TensorAdd(baseImage, delta))
    /\ model' = CallInference(model)
    /\ pc' = "error"
    /\ UNCHANGED <<target_class, file_in, mapping_dict, target_index, original_label,
                   original_index, input_image, optimizer, baseImage,
                   base_image, delta, steps, step, progress, outputFile, model2,
                   stages, label2, result1, result2,
                   preprocessed_input, preprocessed_input2>>

\* lines 64-69: gradient, Adam update, clipping statement
GenUpdate ==
    /\ pc = "update"
    /\ \E moves \in [Channels -> AdamMoves], loss \in Losses :
          /\ delta' = ClipAndUpdate(apply_gradients(delta, moves))
          /\ step' = NextStep(step, steps, loss)
    /\ optimizer' = [iterations |-> optimizer.iterations + 1]
    /\ pc' = "optimize"
    /\ UNCHANGED <<target_class, file_in, mapping_dict, target_index, original_label,
                   original_index, input_image, model, baseImage, base_image, steps,
                   adversary, progress, outputFile, model2, stages, label2,
                   result1, result2,
                   preprocessed_input, preprocessed_input2>>

\* line 71, and the assignment of line 120
GenReturn ==
    /\ pc = "optimize"
    /\ step >= steps
    /\ pc' = Successor("optimize")
    /\ stages' = Append(stages, "optimize")
    /\ UNCHANGED <<target_class, file_in, mapping_dict, target_index, original_label,
                   original_index, input_image, model, optimizer, baseImage,
                   base_image, delta, steps, step, adversary, progress, outputFile,
                   model2, label2, result1, result2,
                   preprocessed_input, preprocessed_input2>>

\* class indices a caller can pass as original_class_index
OriginalIndices == {None, 0}

\* class indices a caller can pass as target_class_index
TargetIndices == {None, 1}

\* a call of generate_target_adversaries by any caller of the module
InitCall ==
    /\ pc = "optimize"
    /\ baseImage \in Images
    /\ base_image \in Images
    /\ delta = Zeros
    /\ original_index \in OriginalIndices
    /\ target_index \in TargetIndices
    /\ steps \in 0..MaxSteps
    /\ step = 0
    /\ optimizer = FreshAdam
    /\ model = "ResNet50"
    /\ adversary = <<>>
    /\ progress = 0
    /\ outputFile = <<>>
    /\ model2 = "unloaded"
    /\ stages = <<>>
    /\ target_class = <<>>
    /\ file_in = <<>>
    /\ mapping_dict = <<>>
    /\ original_label = <<>>
    /\ input_image = <<>>
    /\ label2 = <<>>
    /\ result1 = None
    /\ result2 = None
    /\ preprocessed_input = <<>>
    /\ preprocessed_input2 = <<>>

NextCall == GenForward \/ GenForwardRaise \/ GenUpdate \/ GenReturn

SpecCall == InitCall /\ [][NextCall]_vars

----------------------------------------------------------------------------
(* Attack Driver and Transfer Evaluator *)

\* variant: the not-found test never fires
AlwaysFound(index) == FALSE

\* line 82: target_index == None
NotFound(index) == index = None

\* command-line target class names the driver is run with
TargetArgs == { <<"A">>, <<"a", "_">>, <<"_">> }

\* top-1 labels decode_predictions can give
DecodedLabels == { <<"A", "_">>, <<"A">> }

\* lines 81, 86-88: the target label resolves
ResolveTarget ==
    /\ pc = "resolve_target"
    /\ ~NotFound(get_target_class_index(target_class, mapping_dict))
    /\ target_index' = get_target_class_index(target_class, mapping_dict)
    /\ pc' = Successor(pc)
    /\ UNCHANGED <<target_class, file_in, mapping_dict, original_label,
                   original_index, input_image, model, optimizer, baseImage,
                   base_image, delta, steps, step, adversary, progress, outputFile,
                   model2, stages, label2, result1, result2,
                   preprocessed_input, preprocessed_input2>>

\* lines 81-84: the target label is not in the map; sys.exit(0)
TargetMissing ==
    /\ pc = "resolve_target"
    /\ NotFound(get_target_class_index(target_class, mapping_dict))
    /\ target_index' = get_target_class_index(target_class, mapping_dict)
    /\ pc' = "exit"
    /\ UNCHANGED <<target_class, file_in, mapping_dict, original_label,
                   original_index, input_image, model, optimizer, baseImage,
                   base_image, delta, steps, step, adversary, progress, outputFile,
                   model2, stages, label2, result1, result2,
                   preprocessed_input, preprocessed_input2>>

\* lines 91-92
Preprocess ==
    /\ pc = "preprocess"
    /\ file_in # Unreadable
    /\ input_image' = preprocess_image(file_in)
    /\ preprocessed_input' = preprocess_input(preprocess_image(file_in))
    /\ stages' = Append(stages, pc)
    /\ pc' = Successor(pc)
    /\ UNCHANGED <<target_class, file_in, mapping_dict, target_index, original_label,
                   original_index, model, optimizer, baseImage, base_image, delta,
                   steps, step, adversary, progress, outputFile, model2, label2,
                   result1, result2,
                   preprocessed_input2>>

\* line 91 on an unreadable file: cv2.cvtColor raises on None
PreprocessRaise ==
    /\ pc = "preprocess"
    /\ file_in = Unreadable
    /\ pc' = "error"
    /\ UNCHANGED <<target_class, file_in, mapping_dict, target_index, original_label,
                   original_index, input_image, model, optimizer, baseImage,
                   base_image, delta, steps, step, adversary, progress, outputFile,
                   model2, stages, label2, result1, result2,
                   preprocessed_input, preprocessed_input2>>

\* lines 95-102: load the first classifier, predict, take the top-1 label
Classify ==
    /\ pc = "classify"
    /\ model' = "ResNet50"
    /\ original_label' \in DecodedLabels
    /\ stages' = Append(stages, pc)
    /\ pc' = Successor(pc)
    /\ UNCHANGED <<target_class, file_in, mapping_dict, target_index,
                   original_index, input_image, optimizer, baseImage, base_image,
                   delta, steps, step, adversary, progress, outputFile, model2,
                   label2, result1, result2,
                   preprocessed_input, preprocessed_input2>>

\* lines 103-104: no check of the result
ResolveOriginal ==
    /\ pc = "resolve_original"
    /\ original_index' = get_target_class_index(original_label, mapping_dict)
    /\ stages' = Append(stages, pc)
    /\ pc' = Successor(pc)
    /\ UNCHANGED <<target_class, file_in, mapping_dict, target_index, original_label,
                   input_image, model, optimizer, baseImage, base_image, delta,
                   steps, step, adversary, progress, outputFile, model2, label2,
                   result1, result2,
                   preprocessed_input, preprocessed_input2>>

\* lines 107-117 and the call of line 120
Build ==
    /\ pc = "build"
    /\ optimizer' = FreshAdam
    /\ baseImage' = input_image
    /\ delta' = Zeros
    /\ base_image' = input_image
    /\ steps' = num_of_steps
    /\ step' = 0
    /\ stages' = Append(stages, pc)
    /\ pc' = Successor(pc)
    /\ UNCHANGED <<target_class, file_in, mapping_dict, target_index, original_label,
                   original_index, input_image, model, adversary, progress,
                   outputFile, model2, label2, result1, result2,
                   preprocessed_input, preprocessed_input2>>

\* lines 123-126
Write ==
    /\ pc = "write"
    /\ outputFile' = Reconstruct(baseImage, delta)
    /\ stages' = Append(stages, pc)
    /\ pc' = Successor(pc)
    /\ UNCHANGED <<target_class, file_in, mapping_dict, target_index, original_label,
                   original_index, input_image, model, optimizer, baseImage,
                   base_image, delta, steps, step, adversary, progress, model2,
                   label2, result1, result2,
                   preprocessed_input, preprocessed_input2>>

\* lines 129-137
Reclassify ==
    /\ pc = "reclassify"
    /\ preprocessed_input' = preprocess_input(TensorAdd(baseImage, delta))
    /\ stages' = Append(stages, pc)
    /\ pc' = Successor(pc)
    /\ UNCHANGED <<target_class, file_in, mapping_dict, target_index, original_label,
                   original_index, input_image, model, optimizer, baseImage,
                   base_image, delta, steps, step, adversary, progress, outputFile, model2,
                   label2, result1, result2,
                   preprocessed_input2>>

\* lines 139-140: show the image, return when a key is pressed
Show ==
    /\ pc = "show"
    /\ stages' = Append(stages, pc)
    /\ pc' = Successor(pc)
    /\ UNCHANGED <<target_class, file_in, mapping_dict, target_index, original_label,
                   original_index, input_image, model, optimizer, baseImage,
                   base_image, delta, steps, step, adversary, progress, outputFile,
                   model2, label2, result1, result2,
                   preprocessed_input, preprocessed_input2>>

\* lines 143-147
Transfer ==
    /\ pc = "transfer"
    /\ model2' = "MobileNetV2"
    /\ preprocessed_input2' = preprocess_input2(TensorAdd(baseImage, delta))
    /\ stages' = Append(stages, pc)
    /\ pc' = Successor(pc)
    /\ UNCHANGED <<target_class, file_in, mapping_dict, target_index, original_label,
                   original_index, input_image, model, optimizer, baseImage,
                   base_image, delta, steps, step, adversary, progress, outputFile, label2,
                   result1, result2,
                   preprocessed_input>>

\* the state when line 81 is about to run
Init ==
    /\ pc = "resolve_target"
    /\ target_class \in TargetArgs
    /\ file_in \in Images \cup {Unreadable}
    /\ mapping_dict \in Maps
    /\ target_index = None
    /\ original_label = <<>>
    /\ original_index = None
    /\ input_image = <<>>
    /\ model = "unloaded"
    /\ optimizer = FreshAdam
    /\ baseImage = <<>>
    /\ base_image = <<>>
    /\ delta = <<>>
    /\ steps = 0
    /\ step = 0
    /\ adversary = <<>>
    /\ progress = 0
    /\ outputFile = <<>>
    /\ model2 = "unloaded"
    /\ stages = <<>>
    /\ label2 = <<>>
    /\ result1 = None
    /\ result2 = None
    /\ preprocessed_input = <<>>
    /\ preprocessed_input2 = <<>>

Next ==
    \/ ResolveTarget
    \/ TargetMissing
    \/ Preprocess
    \/ PreprocessRaise
    \/ Classify
    \/ ResolveOriginal
    \/ Build
    \/ GenForward
    \/ GenForwardRaise
    \/ GenUpdate
    \/ GenReturn
    \/ Write
    \/ Reclassify
    \/ Show
    \/ Transfer

Spec == Init /\ [][Next]_vars

----------------------------------------------------------------------------
(* Two calls of the resolver on a pair of labels *)

ResolveFirst ==
    /\ pc = "call1"
    /\ result1' = get_target_class_index(target_class, mapping_dict)
    /\ pc' = "call2"
    /\ UNCHANGED <<target_class, file_in, mapping_dict, target_index, original_label,
                   original_index, input_image, model, optimizer, baseImage,
                   base_image, delta, steps, step, adversary, progress, outputFile,
                   model2, stages, label2, result2,
                   preprocessed_input, preprocessed_input2>>

ResolveSecond ==
    /\ pc = "call2"
    /\ result2' = get_target_class_index(label2, mapping_dict)
    /\ pc' = "called"
    /\ UNCHANGED <<target_class, file_in, mapping_dict, target_index, original_label,
                   original_index, input_image, model, optimizer, baseImage,
                   base_image, delta, steps, step, adversary, progress, outputFile,
                   model2, stages, label2, result1,
                   preprocessed_input, preprocessed_input2>>

InitResolve ==
    /\ pc = "call1"
    /\ target_class \in Labels
    /\ label2 \in Labels
    /\ mapping_dict \in Maps
    /\ file_in = <<>>
    /\ target_index = None
    /\ original_label = <<>>
    /\ original_index = None
    /\ input_image = <<>>
    /\ model = "unloaded"
    /\ optimizer = FreshAdam
    /\ baseImage = <<>>
    /\ base_image = <<>>
    /\ delta = <<>>
    /\ steps = 0
    /\ step = 0
    /\ adversary = <<>>
    /\ progress = 0
    /\ outputFile = <<>>
    /\ model2 = "unloaded"
    /\ stages = <<>>
    /\ result1 = None
    /\ result2 = None
    /\ preprocessed_input = <<>>
    /\ preprocessed_input2 = <<>>

NextResolve == ResolveFirst \/ ResolveSecond

SpecResolve == InitResolve /\ [][NextResolve]_vars

\* the optimizer call under weak fairness: a started loop keeps running
FairCall == InitCall /\ [][NextCall]_vars /\ WF_vars(NextCall)

----------------------------------------------------------------------------
(* Properties *)

StageDone(s) == \E i \in 1..Len(stages) : stages[i] = s

\* C1: after every optimization step every element of delta lies within
\* [-epsilon, epsilon].
C1_DeltaWithinEpsilon ==
    \A i \in DOMAIN delta : -epsilon <= delta[i] /\ delta[i] <= epsilon

\* C2: when the target class name is absent from the label map, the driver
\* terminates before any image is read or preprocessed, before a classifier
\* is loaded or run, before any optimization step, and without writing the
\* output file.
C2_AbortBeforeAnyWork ==
    (NormalizeLabel(target_class) \notin DOMAIN mapping_dict /\ pc # "resolve_target")
        => /\ pc = "exit"
           /\ ~ENABLED Next
           /\ input_image = <<>>
           /\ preprocessed_input = <<>>
           /\ model = "unloaded"
           /\ model2 = "unloaded"
           /\ original_label = <<>>
           /\ baseImage = <<>>
           /\ delta = <<>>
           /\ adversary = <<>>
           /\ optimizer.iterations = 0
           /\ progress = 0
           /\ outputFile = <<>>
           /\ stages = <<>>

C2_Witness ==
    /\ pc = "exit"
    /\ file_in # Unreadable
    /\ target_class # <<>>

\* the folding the claim speaks of: lowercase, underscore to space
ClaimFold(c) == CASE c = "A" -> "a" [] c = "_" -> " " [] OTHER -> c

ClaimFolded(label) == [i \in 1..Len(label) |-> ClaimFold(label[i])]

\* C3: two labels that are equal after lowercasing and replacing underscores
\* by spaces resolve to the same result: the index the map gives the folded
\* name, or None when the folded name is no key of the map.
C3_CaseUnderscoreInsensitive ==
    (pc = "called" /\ ClaimFolded(target_class) = ClaimFolded(label2))
        => /\ result1 = result2
           /\ ClaimFolded(target_class) \in DOMAIN mapping_dict
                 => result1 = mapping_dict[ClaimFolded(target_class)]
           /\ ClaimFolded(target_class) \notin DOMAIN mapping_dict
                 => result1 = None

C3_Witness ==
    /\ pc = "called"
    /\ target_class # label2
    /\ ClaimFolded(target_class) = ClaimFolded(label2)
    /\ \E i \in 1..Len(target_class) : target_class[i] = "_"
    /\ \E i \in 1..Len(label2) : label2[i] = "A"
    /\ result1 # None
    /\ result1 = result2

\* the stages of a run whose target label resolves, in the claimed order
ClaimOrder == <<"preprocess", "classify", "resolve_original", "build", "optimize",
                "write", "reclassify", "show", "transfer">>

\* C4: the stages of a run happen in the one order preprocess, classify,
\* resolve the predicted label, build, optimize, write, re-classify, show,
\* transfer, each at most once and each only after all earlier ones; a run
\* that reaches its end has done each exactly once; the output file is
\* written only after the optimizer has done all its steps and before the
\* re-classification.
C4_StrictlyLinear ==
    /\ Len(stages) <= Len(ClaimOrder)
    /\ stages = SubSeq(ClaimOrder, 1, Len(stages))
    /\ pc = "done" => stages = ClaimOrder
    /\ (outputFile # <<>>) = StageDone("write")
    /\ StageDone("write") =>
          /\ StageDone("optimize")
          /\ step = num_of_steps
          /\ optimizer.iterations = num_of_steps
    /\ StageDone("reclassify") => outputFile # <<>>
    /\ StageDone("transfer") = (model2 # "unloaded")
    /\ StageDone("transfer") = (preprocessed_input2 # <<>>)

C4_Witness ==
    /\ pc = "done"
    /\ stages = ClaimOrder
    /\ outputFile # <<>>

\* C5 as stated: a call of the optimizer changes nothing but the perturbation
\* tensor (and the progress text): the base tensors, the classifier, the class
\* indices, the step budget and the module-level optimizer object keep their
\* values through every step.
C5_OnlyDeltaChanges ==
    [][InLoop => UNCHANGED <<baseImage, base_image, model, original_index,
                             target_index, steps, optimizer, outputFile,
                             mapping_dict, input_image, model2, target_class,
                             original_label, file_in, preprocessed_input,
                             preprocessed_input2>>]_vars

\* C5 amended: a call of the optimizer changes nothing but the perturbation
\* tensor and the state of the module-level Adam optimizer (and the progress
\* text): the base tensors, the classifier, the class indices and the step
\* budget keep their values through every step.
C5_OnlyDeltaAndOptimizerChange ==
    [][InLoop => UNCHANGED <<baseImage, base_image, model, original_index,
                             target_index, steps, outputFile, mapping_dict,
                             input_image, model2, target_class, original_label,
                             file_in, preprocessed_input,
                             preprocessed_input2>>]_vars

C5_Witness ==
    /\ pc = "write"
    /\ optimizer.iterations > 0
    /\ delta # Zeros

ValidIndices == original_index # None /\ target_index # None

\* C6: with valid class indices the optimizer terminates, and when it returns
\* it has applied exactly `steps` updates (none when steps = 0), whatever the
\* losses were.
C6_ExactlyStepsUpdates ==
    /\ [](pc = "write" => (optimizer.iterations = steps /\ step = steps))
    /\ [](step <= steps /\ optimizer.iterations <= steps)
    /\ (ValidIndices => <>(pc = "write"))

C6_Witness ==
    /\ pc = "write"
    /\ ValidIndices
    /\ steps = MaxSteps
    /\ optimizer.iterations = steps

\* C7: every value of the image written to the output file is a whole
\* number in [0, 255], also when base + perturbation leaves that range.
C7_PixelsInRange ==
    \A i \in DOMAIN outputFile :
        /\ 0 <= outputFile[i]
        /\ outputFile[i] <= Fixed(255)
        /\ outputFile[i] % Fixed(1) = 0

C7_Witness ==
    /\ outputFile # <<>>
    /\ \E i \in Channels : baseImage[i] + delta[i] < 0
    /\ \E i \in Channels : baseImage[i] + delta[i] > Fixed(255)
    /\ \E i \in Channels : (baseImage[i] + delta[i]) % Fixed(1) # 0

\* C9: when the predicted label does not resolve, the driver does not stop at
\* the resolution: it builds the tensors and calls the optimizer, which fails
\* in its first step before any update; no output file is written, nothing is
\* re-classified and the transfer classifier is never run.
C9_UnresolvedOriginalFailsInFirstStep ==
    (StageDone("resolve_original") /\ original_index = None)
        => /\ pc \in {"build", "optimize", "error"}
           /\ pc \in {"build", "optimize"} => ENABLED Next
           /\ pc = "error" => (StageDone("build") /\ adversary # <<>> /\ ~ENABLED Next)
           /\ step = 0
           /\ optimizer.iterations = 0
           /\ delta \in {<<>>, Zeros}
           /\ outputFile = <<>>
           /\ model2 = "unloaded"
           /\ ~StageDone("optimize")
           /\ ~StageDone("write")
           /\ ~StageDone("reclassify")
           /\ ~StageDone("transfer")

C9_Witness ==
    /\ pc = "error"
    /\ StageDone("build")
    /\ original_index = None
    /\ target_index # None
    /\ delta = Zeros

\* C10: in every step the tensor fed to the classifier is
\* preprocess_input(base_image + delta), base_image being the argument of
\* the call.
C10_AdversaryFromArgument ==
    pc = "update" => adversary = preprocess_input(TensorAdd(base_image, delta))

====
